---- MODULE Spec2Model ----
(***************************************************************************)
(* URL shortener (src/URLshortener.py): the request handlers create_url,   *)
(* update_url, redirect_url, get_stats, delete_url and list_urls, each     *)
(* running statement by statement on its own connection against the two    *)
(* tables urls and access_logs.  The store is modelled at READ COMMITTED:  *)
(* a statement reads the committed rows, a transaction's writes become     *)
(* visible at its commit, and row locks make a statement wait.             *)
(***************************************************************************)
EXTENDS Integers, Sequences, FiniteSets, TLC

\* ---------------------------------------------------------------- bounds
MaxReqs == 3        \* requests started in one behaviour
MaxFail == 1        \* storage failures (psycopg2.Error) injected in one behaviour
MaxTicks == 1       \* clock advances in one behaviour

Procs == {"w1", "w2"}                    \* concurrent request workers
ShortPaths == {"abc123", "k3x9qa"}       \* tokens (6 lowercase-alphanumeric characters)
OriginalUrls == {"https://a.com", "https://b.com"}
DaysChoices == {<<>>, <<-1>>, <<1>>}     \* expires_in_days: None, -1, 1
TickSteps == {31}                        \* days the clock may advance at once
Clients == {<<>>, <<"10.0.0.1">>}         \* request.client: None or an address
UserAgent == <<"curl/8">>                \* the User-Agent header of the requests
PageChoices == {1, 2}
PerPageChoices == {1, 2}

\* An Optional value is <<>> (None / NULL) or <<v>>.
None == <<>>
Some(v) == <<v>>
IsNone(o) == o = <<>>
Val(o) == o[1]

\* ---------------------------------------------------------------- state
VARIABLES
    urls,       \* committed rows of table urls
    logs,       \* committed rows of table access_logs
    url_seq,    \* last value of the urls.id sequence
    log_seq,    \* last value of the access_logs.id sequence
    now,        \* the clock, in days
    ticks,      \* clock advances so far
    fails,      \* storage failures so far
    nreq,       \* requests started so far
    req,        \* per worker: the request it is handling
    resp        \* the HTTP response sent by the last step, if it sent one

vars == <<urls, logs, url_seq, log_seq, now, ticks, fails, nreq, req, resp>>
db == <<urls, logs, url_seq, log_seq>>

\* A worker with no request.
IdleReq ==
    [op |-> "none", pc |-> "idle", short_path |-> "", original_url |-> "",
     expires_at |-> None, url_id |-> None, client |-> None,
     page |-> 0, per_page |-> 0,
     conn |-> "unbound", txn |-> "none", body |-> None,
     locks |-> {}, ins_urls |-> {}, upd_urls |-> {}, del_urls |-> {},
     ins_logs |-> {}, del_logs |-> {}]

\* No response was sent by the last step.
NoResp ==
    [worker |-> "", op |-> "none", at |-> "idle", short_path |-> "", status |-> 0,
     raised |-> "none",
     exc |-> "none", conn |-> "unbound", txn |-> "none", url_id |-> None, body |-> None]

\* A store left by earlier requests: one row, created at time 0 and redirected
\* to once.
SeedUrls ==
    {[id |-> 1, original_url |-> "https://a.com", short_path |-> "abc123",
      created_at |-> 0, updated_at |-> None, expires_at |-> None]}
SeedLogs ==
    {[id |-> 1, url_id |-> 1, accessed_at |-> 0, ip_address |-> <<"10.0.0.1">>,
      user_agent |-> UserAgent]}

\* The service starts on an empty store or on the store above.
InitStore ==
    \/ urls = {} /\ logs = {} /\ url_seq = 0 /\ log_seq = 0
    \/ urls = SeedUrls /\ logs = SeedLogs /\ url_seq = 1 /\ log_seq = 1

\* A store left by many earlier requests: the row above, created 60 days ago,
\* with 12 logs, two of them older than 30 days.
BusyLogs == 12
BusyUrls ==
    {[id |-> 1, original_url |-> "https://a.com", short_path |-> "abc123",
      created_at |-> -60, updated_at |-> None, expires_at |-> None]}
BusyAccesses ==
    {[id |-> i, url_id |-> 1, accessed_at |-> IF i <= 2 THEN -40 ELSE i - 13,
      ip_address |-> <<"10.0.0.1">>, user_agent |-> UserAgent] : i \in 1..BusyLogs}

Init ==
    /\ InitStore
    /\ now = 0
    /\ ticks = 0
    /\ fails = 0
    /\ nreq = 0
    /\ req = [p \in Procs |-> IdleReq]
    /\ resp = NoResp

\* ------------------------------------------------------- storage helpers
\* A lookup by short_path that skips the rows whose expires_at has passed.
LiveRowsByPath(s) ==
    {r \in urls : r.short_path = s /\ (IsNone(r.expires_at) \/ Val(r.expires_at) >= now)}

\* WHERE short_path = s
RowsByPath(s) == {r \in urls : r.short_path = s}
RowsById(i) == {r \in urls : r.id = i}
\* A selection of logs that ignores the url_id asked for.
LogsOfAnyRow(i) == logs

\* WHERE url_id = i
LogsOf(i) == {l \in logs : l.url_id = i}

\* Row lock on urls row i held by a transaction other than p's.
LockedByOther(p, i) == \E q \in Procs \ {p} : i \in req[q].locks

\* A storage call may fail with psycopg2.Error (here OperationalError).
CanFail == fails < MaxFail

\* The subclasses of psycopg2.Error a storage call raises.
PsycopgErrors == {"OperationalError", "UniqueViolation", "ForeignKeyViolation"}
IsPsycopgError(raised) == raised \in PsycopgErrors

\* get_db_connection: a new connection, no transaction work yet.
Connected(r) == [r EXCEPT !.conn = "open"]

\* The transaction ends (how: committed, rolledback, abandoned): its pending
\* writes and its locks are gone.
Discard(r, how) ==
    [r EXCEPT !.txn = how, !.locks = {}, !.ins_urls = {}, !.upd_urls = {},
              !.del_urls = {}, !.ins_logs = {}, !.del_logs = {}]

\* A finally clause that closes nothing.
NeverClosed(r) == r

\* finally: if 'conn' in locals(): conn.close()  /  if conn: conn.close()
\* Closing with a transaction still open abandons it (the server rolls it back).
CloseIfBound(r) ==
    IF r.conn = "open"
    THEN [Discard(r, IF r.txn = "open" THEN "abandoned" ELSE r.txn) EXCEPT !.conn = "closed"]
    ELSE r

\* The handler of worker p, in local state r, ends with HTTP status s: raised is
\* the exception raised in its try block, exc the one that leaves the handler,
\* at the step the handler was in.
Respond(p, r, s, raised, exc) ==
    /\ req' = [req EXCEPT ![p] = IdleReq]
    /\ resp' = [worker |-> p, op |-> r.op, at |-> r.pc, short_path |-> r.short_path,
                status |-> s, raised |-> raised, exc |-> exc, conn |-> r.conn, txn |-> r.txn,
                url_id |-> r.url_id, body |-> r.body]

\* The handler of worker p goes on in local state r.
Continue(p, r) ==
    /\ req' = [req EXCEPT ![p] = r]
    /\ resp' = NoResp

\* A worker takes a new request when it has none in progress.
CanStart(p) == req[p].pc = "idle" /\ nreq < MaxReqs

\* A commit that keeps only the rows the transaction wrote.
OnlyWrittenUrls(r) == r.upd_urls \cup r.ins_urls

\* conn.commit(): the transaction's writes become the committed rows.
CommittedUrls(r) ==
    {x \in urls : x.id \notin r.del_urls /\ ~(\E u \in r.upd_urls : u.id = x.id)}
        \cup {u \in r.upd_urls : u.id \notin r.del_urls /\ RowsById(u.id) # {}}
        \cup r.ins_urls
\* A commit that keeps only the logs the transaction wrote.
OnlyWrittenLogs(r) == r.ins_logs

CommittedLogs(r) == {l \in logs : l.id \notin r.del_logs} \cup r.ins_logs

\* The table without the constraint.
NoUniqueConstraint(s) == FALSE

\* UNIQUE(short_path) on urls: an insert of s is rejected while a row with s exists.
UniqueViolation(s) == RowsByPath(s) # {}

\* The unique index makes an insert of s wait for an in-flight transaction
\* that inserted s or is deleting the row that has s.
InsertWaits(p, s) ==
    \E q \in Procs \ {p} :
        \/ \E r \in req[q].ins_urls : r.short_path = s
        \/ \E r \in RowsByPath(s) : r.id \in req[q].del_urls

\* The table without the reference.
NoForeignKey(r, i) == FALSE

\* access_logs.url_id REFERENCES urls: a urls row cannot be deleted while a
\* committed log row, not deleted by this transaction, refers to it.
ForeignKeyViolation(r, i) == \E l \in LogsOf(i) : l.id \notin r.del_logs

\* ------------------------------------------------------------ create_url
GeneratedPaths == ShortPaths     \* values generate_short_path() can return
ShortPathInputs == {None, Some("")} \cup {Some(s) : s \in ShortPaths}

\* line 47: data.short_path or generate_short_path()
ResolvedPaths(sp) == IF IsNone(sp) \/ Val(sp) = "" THEN GeneratedPaths ELSE {Val(sp)}

\* except psycopg2.Error -> 500 (lines 80-84); an HTTPException passes;
\* finally closes the connection if it was made (lines 85-87).
CreateExcept(p, r, raised, code) ==
    Respond(p, CloseIfBound(r), IF IsPsycopgError(raised) THEN 500 ELSE code,
            raised, "HTTPException")

\* lines 44-55: resolve short_path, compute expires_at, connect
CreateStart(p) ==
    /\ CanStart(p)
    /\ \E o \in OriginalUrls, sp \in ShortPathInputs, d \in DaysChoices :
       \E short_path \in ResolvedPaths(sp) :
        LET expires_at == IF IsNone(d) THEN None ELSE Some(now + Val(d))
            r0 == [IdleReq EXCEPT !.op = "create", !.short_path = short_path,
                                  !.original_url = o, !.expires_at = expires_at]
        IN  \/ /\ Continue(p, [Connected(r0) EXCEPT !.pc = "c_check"])
               /\ fails' = fails
            \/ /\ CanFail
               /\ fails' = fails + 1
               /\ CreateExcept(p, r0, "OperationalError", 500)
    /\ nreq' = nreq + 1
    /\ UNCHANGED <<db, now, ticks>>

\* The pre-check with its result ignored (no 409 raised).
CreateCheckIgnored(p) ==
    /\ req[p].op = "create" /\ req[p].pc = "c_check"
    /\ \/ /\ CanFail
          /\ fails' = fails + 1
          /\ CreateExcept(p, req[p], "OperationalError", 500)
       \/ /\ Continue(p, [req[p] EXCEPT !.pc = "c_insert", !.txn = "open"])
          /\ fails' = fails
    /\ UNCHANGED <<db, now, ticks, nreq>>

\* lines 57-62: the uniqueness pre-check
CreateCheck(p) ==
    /\ req[p].op = "create" /\ req[p].pc = "c_check"
    /\ \/ /\ CanFail
          /\ fails' = fails + 1
          /\ CreateExcept(p, req[p], "OperationalError", 500)
       \/ /\ RowsByPath(req[p].short_path) # {}
          /\ CreateExcept(p, [req[p] EXCEPT !.txn = "open"], "HTTP409", 409)
          /\ fails' = fails
       \/ /\ RowsByPath(req[p].short_path) = {}
          /\ Continue(p, [req[p] EXCEPT !.pc = "c_insert", !.txn = "open"])
          /\ fails' = fails
    /\ UNCHANGED <<db, now, ticks, nreq>>

\* lines 64-69: INSERT INTO urls ... RETURNING id, created_at
CreateInsert(p) ==
    /\ req[p].op = "create" /\ req[p].pc = "c_insert"
    /\ ~InsertWaits(p, req[p].short_path)
    /\ \/ /\ CanFail
          /\ fails' = fails + 1
          /\ url_seq' = url_seq
          /\ CreateExcept(p, req[p], "OperationalError", 500)
       \/ /\ UniqueViolation(req[p].short_path)
          /\ fails' = fails
          /\ url_seq' = url_seq + 1
          /\ CreateExcept(p, req[p], "UniqueViolation", 500)
       \/ /\ ~UniqueViolation(req[p].short_path)
          /\ fails' = fails
          /\ url_seq' = url_seq + 1
          /\ Continue(p, [req[p] EXCEPT
                            !.pc = "c_commit",
                            !.url_id = Some(url_seq + 1),
                            !.ins_urls = {[id |-> url_seq + 1,
                                           original_url |-> req[p].original_url,
                                           short_path |-> req[p].short_path,
                                           created_at |-> now,
                                           updated_at |-> None,
                                           expires_at |-> req[p].expires_at]}])
    /\ UNCHANGED <<urls, logs, log_seq, now, ticks, nreq>>

\* lines 70-78 and 85-87: commit, respond 201, close
CreateCommit(p) ==
    /\ req[p].op = "create" /\ req[p].pc = "c_commit"
    /\ \/ /\ CanFail
          /\ fails' = fails + 1
          /\ CreateExcept(p, req[p], "OperationalError", 500)
          /\ UNCHANGED <<urls, logs>>
       \/ /\ fails' = fails
          /\ urls' = CommittedUrls(req[p])
          /\ logs' = CommittedLogs(req[p])
          /\ Respond(p, CloseIfBound(Discard(req[p], "committed")), 201, "none", "none")
    /\ UNCHANGED <<url_seq, log_seq, now, ticks, nreq>>

\* ------------------------------------------------------------ update_url
\* No except clause: a psycopg2.Error leaves the handler (500 from the
\* framework); an HTTPException passes; finally closes (lines 116-118).
UpdateExcept(p, r, raised, code) ==
    Respond(p, CloseIfBound(r), IF IsPsycopgError(raised) THEN 500 ELSE code,
            raised, IF IsPsycopgError(raised) THEN "psycopg2.Error" ELSE "HTTPException")

\* lines 90-94: connect
UpdateStart(p) ==
    /\ CanStart(p)
    /\ \E s \in ShortPaths, o \in OriginalUrls :
        LET r0 == [IdleReq EXCEPT !.op = "update", !.short_path = s, !.original_url = o]
        IN  \/ /\ Continue(p, [Connected(r0) EXCEPT !.pc = "u_update"])
               /\ fails' = fails
            \/ /\ CanFail
               /\ fails' = fails + 1
               /\ UpdateExcept(p, r0, "OperationalError", 500)
    /\ nreq' = nreq + 1
    /\ UNCHANGED <<db, now, ticks>>

\* The update without the "if not result" check: no row is a success too.
UpdateExecUnchecked(p) ==
    /\ req[p].op = "update" /\ req[p].pc = "u_update"
    /\ \A r \in RowsByPath(req[p].short_path) : ~LockedByOther(p, r.id)
    /\ \/ /\ CanFail
          /\ fails' = fails + 1
          /\ UpdateExcept(p, req[p], "OperationalError", 500)
       \/ /\ fails' = fails
          /\ Continue(p, [req[p] EXCEPT
                !.pc = "u_commit",
                !.txn = "open",
                !.locks = {r.id : r \in RowsByPath(req[p].short_path)},
                !.upd_urls = {[r EXCEPT !.original_url = req[p].original_url,
                                        !.updated_at = Some(now)] :
                              r \in RowsByPath(req[p].short_path)}])
    /\ UNCHANGED <<db, now, ticks, nreq>>

\* lines 96-107: UPDATE urls SET original_url, updated_at WHERE short_path
UpdateExec(p) ==
    /\ req[p].op = "update" /\ req[p].pc = "u_update"
    /\ \A r \in RowsByPath(req[p].short_path) : ~LockedByOther(p, r.id)
    /\ \/ /\ CanFail
          /\ fails' = fails + 1
          /\ UpdateExcept(p, req[p], "OperationalError", 500)
       \/ /\ RowsByPath(req[p].short_path) = {}
          /\ fails' = fails
          /\ UpdateExcept(p, [req[p] EXCEPT !.txn = "open"], "HTTP404", 404)
       \/ /\ fails' = fails
          /\ \E row \in RowsByPath(req[p].short_path) :
                Continue(p, [req[p] EXCEPT
                    !.pc = "u_commit",
                    !.txn = "open",
                    !.url_id = Some(row.id),
                    !.body = Some(req[p].original_url),
                    !.locks = {r.id : r \in RowsByPath(req[p].short_path)},
                    !.upd_urls = {[r EXCEPT !.original_url = req[p].original_url,
                                            !.updated_at = Some(now)] :
                                  r \in RowsByPath(req[p].short_path)}])
    /\ UNCHANGED <<db, now, ticks, nreq>>

\* lines 109-118: commit, respond 200, close
UpdateCommit(p) ==
    /\ req[p].op = "update" /\ req[p].pc = "u_commit"
    /\ \/ /\ CanFail
          /\ fails' = fails + 1
          /\ UpdateExcept(p, req[p], "OperationalError", 500)
          /\ UNCHANGED <<urls, logs>>
       \/ /\ fails' = fails
          /\ urls' = CommittedUrls(req[p])
          /\ logs' = CommittedLogs(req[p])
          /\ Respond(p, CloseIfBound(Discard(req[p], "committed")), 200, "none", "none")
    /\ UNCHANGED <<url_seq, log_seq, now, ticks, nreq>>

\* ---------------------------------------------------------- redirect_url
\* except Exception (lines 161-164): every exception raised in the try block,
\* HTTPException included, is caught: rollback if connected, then 500;
\* finally closes (lines 165-167).
RedirectExcept(p, r, raised) ==
    Respond(p, CloseIfBound(IF r.conn = "open" THEN Discard(r, "rolledback") ELSE r),
            500, raised, "HTTPException")

\* lines 121-125: connect
RedirectStart(p) ==
    /\ CanStart(p)
    /\ \E s \in ShortPaths, c \in Clients :
        LET r0 == [IdleReq EXCEPT !.op = "redirect", !.short_path = s, !.client = c]
        IN  \/ /\ Continue(p, [Connected(r0) EXCEPT !.pc = "r_select"])
               /\ fails' = fails
            \/ /\ CanFail
               /\ fails' = fails + 1
               /\ RedirectExcept(p, r0, "OperationalError")
    /\ nreq' = nreq + 1
    /\ UNCHANGED <<db, now, ticks>>

\* line 140: expires_at and expires_at < datetime.now()
Expired(expires_at, t) == ~IsNone(expires_at) /\ Val(expires_at) < t

\* lines 127-141: SELECT ... FOR UPDATE, the not-found and the expiry checks
RedirectSelect(p) ==
    /\ req[p].op = "redirect" /\ req[p].pc = "r_select"
    /\ \A r \in RowsByPath(req[p].short_path) : ~LockedByOther(p, r.id)
    /\ \/ /\ CanFail
          /\ fails' = fails + 1
          /\ RedirectExcept(p, req[p], "OperationalError")
       \/ /\ RowsByPath(req[p].short_path) = {}
          /\ fails' = fails
          /\ RedirectExcept(p, [req[p] EXCEPT !.txn = "open"], "HTTP404")
       \/ /\ fails' = fails
          /\ \E row \in RowsByPath(req[p].short_path) :
                LET r1 == [req[p] EXCEPT
                              !.txn = "open",
                              !.url_id = Some(row.id),
                              !.original_url = row.original_url,
                              !.expires_at = row.expires_at,
                              !.locks = {r.id : r \in RowsByPath(req[p].short_path)}]
                IN  IF Expired(row.expires_at, now)
                    THEN RedirectExcept(p, r1, "HTTP410")
                    ELSE Continue(p, [r1 EXCEPT !.pc = "r_insert"])
    /\ UNCHANGED <<db, now, ticks, nreq>>

\* lines 143-154: INSERT INTO access_logs ... RETURNING id
RedirectInsert(p) ==
    /\ req[p].op = "redirect" /\ req[p].pc = "r_insert"
    /\ ~LockedByOther(p, Val(req[p].url_id))
    /\ \/ /\ IsNone(req[p].client)          \* request.client.host on None
          /\ fails' = fails
          /\ log_seq' = log_seq
          /\ RedirectExcept(p, req[p], "AttributeError")
       \/ /\ ~IsNone(req[p].client)
          /\ CanFail
          /\ fails' = fails + 1
          /\ log_seq' = log_seq
          /\ RedirectExcept(p, req[p], "OperationalError")
       \/ /\ ~IsNone(req[p].client)          \* the reference rejects a log of no row
          /\ RowsById(Val(req[p].url_id)) = {}     \* (excluded while the row lock is held)
          /\ fails' = fails
          /\ log_seq' = log_seq + 1
          /\ RedirectExcept(p, req[p], "ForeignKeyViolation")
       \/ /\ ~IsNone(req[p].client)
          /\ RowsById(Val(req[p].url_id)) # {}
          /\ fails' = fails
          /\ log_seq' = log_seq + 1
          /\ Continue(p, [req[p] EXCEPT
                            !.pc = "r_commit",
                            !.locks = @ \cup {Val(req[p].url_id)},
                            !.ins_logs = {[id |-> log_seq + 1,
                                           url_id |-> Val(req[p].url_id),
                                           accessed_at |-> now,
                                           ip_address |-> req[p].client,
                                           user_agent |-> UserAgent]}])
    /\ UNCHANGED <<urls, logs, url_seq, now, ticks, nreq>>

\* A commit that fails after its rows were stored, with no rollback undoing them.
RedirectCommitNotUndone(p) ==
    /\ req[p].op = "redirect" /\ req[p].pc = "r_commit"
    /\ urls' = CommittedUrls(req[p])
    /\ logs' = CommittedLogs(req[p])
    /\ \/ /\ CanFail
          /\ fails' = fails + 1
          /\ RedirectExcept(p, req[p], "OperationalError")
       \/ /\ fails' = fails
          /\ Respond(p, CloseIfBound(Discard([req[p] EXCEPT !.body = Some(req[p].original_url)],
                                             "committed")),
                     200, "none", "none")
    /\ UNCHANGED <<url_seq, log_seq, now, ticks, nreq>>

\* lines 155-159 and 165-167: commit, return redirect_to, close
RedirectCommit(p) ==
    /\ req[p].op = "redirect" /\ req[p].pc = "r_commit"
    /\ \/ /\ CanFail
          /\ fails' = fails + 1
          /\ RedirectExcept(p, req[p], "OperationalError")
          /\ UNCHANGED <<urls, logs>>
       \/ /\ fails' = fails
          /\ urls' = CommittedUrls(req[p])
          /\ logs' = CommittedLogs(req[p])
          /\ Respond(p, CloseIfBound(Discard([req[p] EXCEPT !.body = Some(req[p].original_url)],
                                             "committed")),
                     200, "none", "none")
    /\ UNCHANGED <<url_seq, log_seq, now, ticks, nreq>>

\* ------------------------------------------------------------- get_stats
\* The injective sequences over the set S (every row once).
Arrangements(S) ==
    {f \in [1..Cardinality(S) -> S] :
        \A i, j \in 1..Cardinality(S) : i # j => f[i] # f[j]}

\* The rows in ascending order of accessed_at.
RECURSIVE LogsOldestFirst(_)
LogsOldestFirst(S) ==
    IF S = {} THEN {<<>>}
    ELSE UNION {{<<x>> \o f : f \in LogsOldestFirst(S \ {x})} :
                    x \in {y \in S : \A z \in S : y.accessed_at <= z.accessed_at}}

\* ORDER BY accessed_at DESC: the orders the statement may return (ties in any
\* order), built from the newest row on.
RECURSIVE LogsNewestFirst(_)
LogsNewestFirst(S) ==
    IF S = {} THEN {<<>>}
    ELSE UNION {{<<x>> \o f : f \in LogsNewestFirst(S \ {x})} :
                    x \in {y \in S : \A z \in S : y.accessed_at >= z.accessed_at}}

\* ORDER BY created_at DESC: the orders the statement may return (ties in any order).
UrlsNewestFirst(S) ==
    {f \in Arrangements(S) :
        \A i, j \in 1..Cardinality(S) : i < j => f[i].created_at >= f[j].created_at}

Min(a, b) == IF a < b THEN a ELSE b

\* LIMIT n OFFSET k of the sequence f
LimitOffset(f, n, k) == SubSeq(f, k + 1, Min(k + n, Len(f)))

RecentWindow == 30     \* INTERVAL '30 days'
RecentLimit == 10      \* LIMIT 10

\* except psycopg2.Error -> 500 (lines 226-230); an HTTPException passes;
\* finally closes if connected (lines 231-233).
StatsExcept(p, r, raised, code) ==
    Respond(p, CloseIfBound(r), IF IsPsycopgError(raised) THEN 500 ELSE code,
            raised, "HTTPException")

\* lines 170-176: connect
StatsStart(p) ==
    /\ CanStart(p)
    /\ \E s \in ShortPaths :
        LET r0 == [IdleReq EXCEPT !.op = "stats", !.short_path = s]
        IN  \/ /\ Continue(p, [Connected(r0) EXCEPT !.pc = "s_select"])
               /\ fails' = fails
            \/ /\ CanFail
               /\ fails' = fails + 1
               /\ StatsExcept(p, r0, "OperationalError", 500)
    /\ nreq' = nreq + 1
    /\ UNCHANGED <<db, now, ticks>>

\* lines 178-191: SELECT id, original_url FROM urls WHERE short_path
StatsSelect(p) ==
    /\ req[p].op = "stats" /\ req[p].pc = "s_select"
    /\ \/ /\ CanFail
          /\ fails' = fails + 1
          /\ StatsExcept(p, req[p], "OperationalError", 500)
       \/ /\ RowsByPath(req[p].short_path) = {}
          /\ fails' = fails
          /\ StatsExcept(p, [req[p] EXCEPT !.txn = "open"], "HTTP404", 404)
       \/ /\ fails' = fails
          /\ \E row \in RowsByPath(req[p].short_path) :
                Continue(p, [req[p] EXCEPT !.pc = "s_count", !.txn = "open",
                                           !.url_id = Some(row.id),
                                           !.original_url = row.original_url])
    /\ UNCHANGED <<db, now, ticks, nreq>>

\* lines 193-202: the two counts
StatsCount(p) ==
    /\ req[p].op = "stats" /\ req[p].pc = "s_count"
    /\ \/ /\ CanFail
          /\ fails' = fails + 1
          /\ StatsExcept(p, req[p], "OperationalError", 500)
       \/ /\ fails' = fails
          /\ LET mine == LogsOf(Val(req[p].url_id))
             IN  Continue(p, [req[p] EXCEPT
                    !.pc = "s_recent",
                    !.body = Some([total_accesses |-> Cardinality(mine),
                                   accesses_last_30_days |->
                                       Cardinality({l \in mine :
                                           l.accessed_at >= now - RecentWindow})])])
    /\ UNCHANGED <<db, now, ticks, nreq>>

\* lines 204-224 and 231-233: the most recent logs, the payload, close
StatsRecent(p) ==
    /\ req[p].op = "stats" /\ req[p].pc = "s_recent"
    /\ \/ /\ CanFail
          /\ fails' = fails + 1
          /\ StatsExcept(p, req[p], "OperationalError", 500)
       \/ /\ fails' = fails
          /\ \E f \in LogsNewestFirst(LogsOf(Val(req[p].url_id))) :
                LET page == LimitOffset(f, RecentLimit, 0)
                    access_logs == [i \in 1..Len(page) |->
                                      [accessed_at |-> page[i].accessed_at,
                                       ip_address |-> page[i].ip_address,
                                       user_agent |-> page[i].user_agent]]
                    payload == [original_url |-> req[p].original_url,
                                total_accesses |-> Val(req[p].body).total_accesses,
                                accesses_last_30_days |->
                                    Val(req[p].body).accesses_last_30_days,
                                access_logs |-> access_logs]
                IN  Respond(p, CloseIfBound([req[p] EXCEPT !.body = Some(payload)]),
                            200, "none", "none")
    /\ UNCHANGED <<db, now, ticks, nreq>>

\* ------------------------------------------------------------ delete_url
\* except psycopg2.Error (lines 256-261): conn.rollback(), then 500; when the
\* connection was never made, conn is unbound there and the rollback raises
\* UnboundLocalError, which leaves the handler. An HTTPException passes;
\* finally closes if connected (lines 262-264).
DeleteExcept(p, r, raised, code) ==
    IF IsPsycopgError(raised)
    THEN IF r.conn = "open"
         THEN Respond(p, CloseIfBound(Discard(r, "rolledback")), 500, raised, "HTTPException")
         ELSE Respond(p, r, 500, raised, "UnboundLocalError")
    ELSE Respond(p, CloseIfBound(r), code, raised, "HTTPException")

\* lines 236-239: connect
DeleteStart(p) ==
    /\ CanStart(p)
    /\ \E s \in ShortPaths :
        LET r0 == [IdleReq EXCEPT !.op = "delete", !.short_path = s]
        IN  \/ /\ Continue(p, [Connected(r0) EXCEPT !.pc = "d_select"])
               /\ fails' = fails
            \/ /\ CanFail
               /\ fails' = fails + 1
               /\ DeleteExcept(p, r0, "OperationalError", 500)
    /\ nreq' = nreq + 1
    /\ UNCHANGED <<db, now, ticks>>

\* lines 240-249: SELECT id FROM urls WHERE short_path
DeleteSelect(p) ==
    /\ req[p].op = "delete" /\ req[p].pc = "d_select"
    /\ \/ /\ CanFail
          /\ fails' = fails + 1
          /\ DeleteExcept(p, req[p], "OperationalError", 500)
       \/ /\ RowsByPath(req[p].short_path) = {}
          /\ fails' = fails
          /\ DeleteExcept(p, [req[p] EXCEPT !.txn = "open"], "HTTP404", 404)
       \/ /\ fails' = fails
          /\ \E row \in RowsByPath(req[p].short_path) :
                Continue(p, [req[p] EXCEPT !.pc = "d_logs", !.txn = "open",
                                           !.url_id = Some(row.id)])
    /\ UNCHANGED <<db, now, ticks, nreq>>

\* The deletion of the logs committed on its own (a commit after line 251).
DeleteLogsCommitted(p) ==
    /\ req[p].op = "delete" /\ req[p].pc = "d_logs"
    /\ \A q \in Procs \ {p} :
          \A l \in LogsOf(Val(req[p].url_id)) : l.id \notin req[q].del_logs
    /\ \/ /\ CanFail
          /\ fails' = fails + 1
          /\ DeleteExcept(p, req[p], "OperationalError", 500)
          /\ logs' = logs
       \/ /\ fails' = fails
          /\ logs' = logs \ LogsOf(Val(req[p].url_id))
          /\ Continue(p, [req[p] EXCEPT !.pc = "d_url"])
    /\ UNCHANGED <<urls, url_seq, log_seq, now, ticks, nreq>>

\* line 251: DELETE FROM access_logs WHERE url_id
DeleteLogs(p) ==
    /\ req[p].op = "delete" /\ req[p].pc = "d_logs"
    /\ \A q \in Procs \ {p} :
          \A l \in LogsOf(Val(req[p].url_id)) : l.id \notin req[q].del_logs
    /\ \/ /\ CanFail
          /\ fails' = fails + 1
          /\ DeleteExcept(p, req[p], "OperationalError", 500)
       \/ /\ fails' = fails
          /\ Continue(p, [req[p] EXCEPT
                            !.pc = "d_url",
                            !.del_logs = {l.id : l \in LogsOf(Val(req[p].url_id))}])
    /\ UNCHANGED <<db, now, ticks, nreq>>

\* line 252: DELETE FROM urls WHERE id
DeleteUrl(p) ==
    /\ req[p].op = "delete" /\ req[p].pc = "d_url"
    /\ ~LockedByOther(p, Val(req[p].url_id))
    /\ \/ /\ CanFail
          /\ fails' = fails + 1
          /\ DeleteExcept(p, req[p], "OperationalError", 500)
       \/ /\ RowsById(Val(req[p].url_id)) # {}
          /\ ForeignKeyViolation(req[p], Val(req[p].url_id))
          /\ fails' = fails
          /\ DeleteExcept(p, req[p], "ForeignKeyViolation", 500)
       \/ /\ RowsById(Val(req[p].url_id)) # {}
          /\ ~ForeignKeyViolation(req[p], Val(req[p].url_id))
          /\ fails' = fails
          /\ Continue(p, [req[p] EXCEPT !.pc = "d_commit",
                                        !.del_urls = {Val(req[p].url_id)},
                                        !.locks = {Val(req[p].url_id)}])
       \/ /\ RowsById(Val(req[p].url_id)) = {}
          /\ fails' = fails
          /\ Continue(p, [req[p] EXCEPT !.pc = "d_commit"])
    /\ UNCHANGED <<db, now, ticks, nreq>>

\* lines 253-254 and 262-264: commit, respond 204, close
DeleteCommit(p) ==
    /\ req[p].op = "delete" /\ req[p].pc = "d_commit"
    /\ \/ /\ CanFail
          /\ fails' = fails + 1
          /\ DeleteExcept(p, req[p], "OperationalError", 500)
          /\ UNCHANGED <<urls, logs>>
       \/ /\ fails' = fails
          /\ urls' = CommittedUrls(req[p])
          /\ logs' = CommittedLogs(req[p])
          /\ Respond(p, CloseIfBound(Discard(req[p], "committed")), 204, "none", "none")
    /\ UNCHANGED <<url_seq, log_seq, now, ticks, nreq>>

\* ------------------------------------------------------------- list_urls
\* except psycopg2.Error -> 500 (lines 309-312); finally closes if connected.
ListExcept(p, r, raised) ==
    Respond(p, CloseIfBound(r), 500, raised, "HTTPException")

\* lines 267-277: page and per_page validated by the framework, connect
ListStart(p) ==
    /\ CanStart(p)
    /\ \E pg \in PageChoices, pp \in PerPageChoices :
        LET r0 == [IdleReq EXCEPT !.op = "list", !.page = pg, !.per_page = pp]
        IN  \/ /\ Continue(p, [Connected(r0) EXCEPT !.pc = "l_count"])
               /\ fails' = fails
            \/ /\ CanFail
               /\ fails' = fails + 1
               /\ ListExcept(p, r0, "OperationalError")
    /\ nreq' = nreq + 1
    /\ UNCHANGED <<db, now, ticks>>

\* lines 280-282: SELECT COUNT(*) FROM urls
ListCount(p) ==
    /\ req[p].op = "list" /\ req[p].pc = "l_count"
    /\ \/ /\ CanFail
          /\ fails' = fails + 1
          /\ ListExcept(p, req[p], "OperationalError")
       \/ /\ fails' = fails
          /\ Continue(p, [req[p] EXCEPT !.pc = "l_page", !.txn = "open",
                                        !.body = Some(Cardinality(urls))])
    /\ UNCHANGED <<db, now, ticks, nreq>>

\* lines 283-307 and 313-315: the page of rows, the payload, close
ListPage(p) ==
    /\ req[p].op = "list" /\ req[p].pc = "l_page"
    /\ \/ /\ CanFail
          /\ fails' = fails + 1
          /\ ListExcept(p, req[p], "OperationalError")
       \/ /\ fails' = fails
          /\ \E f \in UrlsNewestFirst(urls) :
                LET offset == (req[p].page - 1) * req[p].per_page
                    rows == LimitOffset(f, req[p].per_page, offset)
                    items == [i \in 1..Len(rows) |->
                                [id |-> rows[i].id,
                                 original_url |-> rows[i].original_url,
                                 short_path |-> rows[i].short_path,
                                 created_at |-> rows[i].created_at,
                                 expires_at |-> rows[i].expires_at]]
                    payload == [total_items |-> Val(req[p].body),
                                page |-> req[p].page,
                                per_page |-> req[p].per_page,
                                items |-> items]
                IN  Respond(p, CloseIfBound([req[p] EXCEPT !.body = Some(payload)]),
                            200, "none", "none")
    /\ UNCHANGED <<db, now, ticks, nreq>>

\* ------------------------------------------------------------- the clock
Tick ==
    /\ ticks < MaxTicks
    /\ \E d \in TickSteps : now' = now + d
    /\ ticks' = ticks + 1
    /\ resp' = NoResp
    /\ UNCHANGED <<db, fails, nreq, req>>

Next ==
    \/ Tick
    \/ \E p \in Procs :
        \/ CreateStart(p) \/ CreateCheck(p) \/ CreateInsert(p) \/ CreateCommit(p)
        \/ UpdateStart(p) \/ UpdateExec(p) \/ UpdateCommit(p)
        \/ RedirectStart(p) \/ RedirectSelect(p) \/ RedirectInsert(p) \/ RedirectCommit(p)
        \/ StatsStart(p) \/ StatsSelect(p) \/ StatsCount(p) \/ StatsRecent(p)
        \/ DeleteStart(p) \/ DeleteSelect(p) \/ DeleteLogs(p) \/ DeleteUrl(p) \/ DeleteCommit(p)
        \/ ListStart(p) \/ ListCount(p) \/ ListPage(p)

Spec == Init /\ [][Next]_vars

\* The same service started on the store with many logs.
InitBusy ==
    /\ urls = BusyUrls /\ logs = BusyAccesses /\ url_seq = 1 /\ log_seq = BusyLogs
    /\ now = 0
    /\ ticks = 0
    /\ fails = 0
    /\ nreq = 0
    /\ req = [p \in Procs |-> IdleReq]
    /\ resp = NoResp

SpecBusy == InitBusy /\ [][Next]_vars

\* ================================================================ claims
\* Worker p takes the step it is at, op at pc, and no storage call fails in it.
Takes(p, op, pc) ==
    /\ req[p].op = op /\ req[p].pc = pc
    /\ req'[p] # req[p]
    /\ fails' = fails

\* The row the statement of worker p finds under its short_path.
Found(p) == RowsByPath(req[p].short_path)

\* C1: in every committed state no two rows of urls have the same short_path.
C1_UniqueShortPath ==
    \A r1, r2 \in urls : r1.short_path = r2.short_path => r1 = r2

\* A create that passed the pre-check was rejected by the constraint, the
\* row that won the race being stored.
C1_Witness ==
    /\ resp.op = "create" /\ resp.raised = "UniqueViolation"
    /\ Cardinality(RowsByPath(resp.short_path)) = 1

\* C2: a create whose pre-check runs (without a storage failure) while a row
\* with its resolved short_path exists answers 409 in that step and leaves
\* the rows of urls and of access_logs as they are.
C2_ConflictOnUsedPath ==
    [][\A p \in Procs :
        (Takes(p, "create", "c_check") /\ Found(p) # {})
            => /\ resp'.worker = p /\ resp'.status = 409
               /\ urls' = urls /\ logs' = logs]_vars

C2_Witness ==
    /\ resp.op = "create" /\ resp.status = 409
    /\ \E r \in RowsByPath(resp.short_path) : LogsOf(r.id) # {}

\* C3: a create that passed the pre-check and is rejected by the uniqueness
\* constraint answers 409, and exactly one row with its short_path is stored.
C3_RaceIsConflict ==
    (resp.op = "create" /\ resp.raised = "UniqueViolation")
        => /\ resp.status = 409
           /\ Cardinality(RowsByPath(resp.short_path)) = 1

\* C4: a redirect whose locking read (without a storage failure) finds a row
\* with expires_at in the past answers 410 and writes no row of access_logs.
C4_ExpiredIsGone ==
    [][\A p \in Procs :
        (Takes(p, "redirect", "r_select")
            /\ \E r \in Found(p) : Expired(r.expires_at, now))
            => /\ resp'.worker = p /\ resp'.status = 410
               /\ logs' = logs]_vars

\* C5: a redirect whose locking read (without a storage failure) finds no row
\* answers 404 and writes no row of access_logs.
C5_MissingIsNotFound ==
    [][\A p \in Procs :
        (Takes(p, "redirect", "r_select") /\ Found(p) = {})
            => /\ resp'.worker = p /\ resp'.status = 404
               /\ logs' = logs]_vars

\* C6: a redirect that found a row not expired and met no storage failure ends
\* with 200, returns the row's original_url, has added exactly one row to
\* access_logs, with the row's id, and has left urls as it was.
C6_RedirectLogsOnce ==
    [][(resp'.op = "redirect" /\ resp'.at \in {"r_insert", "r_commit"}
            /\ ~IsPsycopgError(resp'.raised))
        => /\ resp'.status = 200
           /\ urls' = urls
           /\ \E r \in RowsById(Val(resp'.url_id)) : resp'.body = Some(r.original_url)
           /\ \E l \in logs' \ logs :
                 /\ logs' = logs \cup {l}
                 /\ l.url_id = Val(resp'.url_id)]_vars

\* C7: when a delete answers 204, the committed state has no row with its
\* short_path and no log of the row it looked up, and every other row and log
\* is as before.
C7_DeleteRemoves ==
    [][(resp'.op = "delete" /\ resp'.status = 204)
        => /\ {r \in urls' : r.short_path = resp'.short_path} = {}
           /\ {l \in logs' : l.url_id = Val(resp'.url_id)} = {}
           /\ {r \in urls' : r.short_path # resp'.short_path}
                 = {r \in urls : r.short_path # resp'.short_path}
           /\ {l \in logs' : l.url_id # Val(resp'.url_id)}
                 = {l \in logs : l.url_id # Val(resp'.url_id)}]_vars

\* C8: an update or a stats whose lookup (without a storage failure) finds no
\* row with its short_path answers 404 in that step and changes no stored row.
C8_MissingIsNotFound ==
    [][\A p \in Procs :
        ((Takes(p, "update", "u_update") \/ Takes(p, "stats", "s_select"))
            /\ Found(p) = {})
            => /\ resp'.worker = p /\ resp'.status = 404
               /\ urls' = urls /\ logs' = logs]_vars

\* An update of a short_path whose row was deleted.
C8_Witness ==
    /\ resp.op = "update" /\ resp.status = 404
    /\ resp.short_path = "abc123" /\ url_seq = 1 /\ urls = {}

\* C9: a delete that ends on a storage error answers 500 and leaves every row
\* of urls and access_logs as it was; and no step removes logs of a row of
\* urls that it leaves in place.
C9_DeleteAtomic ==
    [][/\ (resp'.op = "delete" /\ IsPsycopgError(resp'.raised))
            => (resp'.status = 500 /\ urls' = urls /\ logs' = logs)
       /\ \A l \in logs \ logs' : \A r \in urls' : r.id # l.url_id]_vars

\* A delete failed at its commit, after both DELETE statements, and the row
\* and its log are still there.
C9_Witness ==
    /\ resp.op = "delete" /\ resp.at = "d_commit"
    /\ resp.raised = "OperationalError" /\ resp.status = 500
    /\ RowsById(Val(resp.url_id)) # {}
    /\ LogsOf(Val(resp.url_id)) # {}

\* C10: in every committed state every row of access_logs has the id of a row
\* of urls as its url_id.
C10_NoOrphanLogs ==
    \A l \in logs : RowsById(l.url_id) # {}

\* A delete raced a redirect of the same row: the log the redirect committed
\* after the delete had removed the logs made the delete of the row fail.
C10_Witness ==
    /\ resp.op = "delete" /\ resp.raised = "ForeignKeyViolation"
    /\ LogsOf(Val(resp.url_id)) # {}

\* C11: when the pages 1 and 2 of one per_page are answered one right after the
\* other (by separate requests, over the same stored rows) and both report the
\* number of stored rows as total_items, their items one after the other hold
\* the first 2 * per_page rows of urls: each row at most once, newest first.
C11_PagesPartitionRows ==
    [][(/\ resp.op = "list" /\ resp.status = 200
        /\ resp'.op = "list" /\ resp'.status = 200
        /\ Val(resp.body).page = 1 /\ Val(resp'.body).page = 2
        /\ Val(resp.body).per_page = Val(resp'.body).per_page
        /\ Val(resp.body).total_items = Cardinality(urls)
        /\ Val(resp'.body).total_items = Cardinality(urls))
       => LET all == Val(resp.body).items \o Val(resp'.body).items
          IN  /\ Len(all) = Min(2 * Val(resp.body).per_page, Cardinality(urls))
              /\ \A i \in 1..Len(all) : \E r \in urls : r.id = all[i].id
              /\ \A i, j \in 1..Len(all) :
                    i < j => /\ all[i].id # all[j].id
                             /\ all[i].created_at >= all[j].created_at]_vars

\* C12: a stats that found its row and meets no storage failure counts as
\* total_accesses the rows of access_logs with the row's id and as
\* accesses_last_30_days no more than that; it answers 200 with that count
\* and with access_logs holding at most 10 entries, newest first, which are
\* the newest logs of the row.
C12_StatsOfRow ==
    [][\A p \in Procs :
        /\ Takes(p, "stats", "s_count")
            => LET b == Val(req'[p].body)
               IN  /\ b.total_accesses
                        = Cardinality({l \in logs : l.url_id = Val(req[p].url_id)})
                   /\ b.accesses_last_30_days <= b.total_accesses
        /\ Takes(p, "stats", "s_recent")
            => LET mine == {l \in logs : l.url_id = Val(req[p].url_id)}
                   a == Val(resp'.body).access_logs
               IN  /\ resp'.worker = p /\ resp'.status = 200
                   /\ Val(resp'.body).total_accesses = Val(req[p].body).total_accesses
                   /\ Len(a) <= RecentLimit
                   /\ Len(a) = Min(RecentLimit, Cardinality(mine))
                   /\ \A i, j \in 1..Len(a) : i < j => a[i].accessed_at >= a[j].accessed_at
                   /\ \A i \in 1..Len(a) :
                        /\ \E l \in mine : /\ l.accessed_at = a[i].accessed_at
                                           /\ l.ip_address = a[i].ip_address
                                           /\ l.user_agent = a[i].user_agent
                        /\ Cardinality({l \in mine : l.accessed_at > a[i].accessed_at}) < i]_vars

\* A stats of a row with more than 10 logs, some older than 30 days, answered
\* with the 10 newest.
C12_Witness ==
    /\ resp.op = "stats" /\ resp.status = 200
    /\ Val(resp.body).total_accesses > RecentLimit
    /\ Val(resp.body).accesses_last_30_days < Val(resp.body).total_accesses
    /\ Val(resp.body).accesses_last_30_days > 0
    /\ Len(Val(resp.body).access_logs) = RecentLimit

\* A response to a request was sent by the last step.
Answered == resp.op # "none"

\* The requests that answer with a success status after writing.
Wrote ==
    \/ resp.op = "create" /\ resp.status = 201
    \/ resp.op = "update" /\ resp.status = 200
    \/ resp.op = "redirect" /\ resp.status = 200
    \/ resp.op = "delete" /\ resp.status = 204

ExpiredRows(s) == {r \in urls : r.short_path = s /\ Expired(r.expires_at, now)}

\* C14: the passage of time removes no row, and a row whose expires_at has
\* passed is found by update, stats and delete and listed by list: the update
\* goes on to its commit and answers 200 with the row changed, the stats goes
\* on to its counts and answers 200, the delete goes on and, committing,
\* answers 204 with the row removed, and list counts it in total_items and
\* returns it among the items.
C14_ExpiredLikeLive ==
    [][/\ now' # now => (urls' = urls /\ logs' = logs)
       /\ \A p \in Procs :
            LET s == req[p].short_path
                mine == {r \in ExpiredRows(s) : req[p].url_id = Some(r.id)}
            IN  /\ (Takes(p, "update", "u_update") /\ ExpiredRows(s) # {})
                        => req'[p].pc = "u_commit"
                /\ (Takes(p, "update", "u_commit") /\ mine # {})
                        => /\ resp'.worker = p /\ resp'.status = 200
                           /\ \A r \in mine :
                                \E u \in urls' : /\ u.id = r.id
                                                 /\ u.original_url = req[p].original_url
                                                 /\ u.expires_at = r.expires_at
                /\ (Takes(p, "stats", "s_select") /\ ExpiredRows(s) # {})
                        => req'[p].pc = "s_count"
                /\ (Takes(p, "stats", "s_recent") /\ mine # {})
                        => resp'.worker = p /\ resp'.status = 200
                /\ (Takes(p, "delete", "d_select") /\ ExpiredRows(s) # {})
                        => req'[p].pc = "d_logs"
                /\ (Takes(p, "delete", "d_commit") /\ mine # {})
                        => /\ resp'.worker = p /\ resp'.status = 204
                           /\ \A r \in mine : r \notin urls'
                /\ Takes(p, "list", "l_count")
                        => req'[p].body = Some(Cardinality(urls))
                /\ (Takes(p, "list", "l_page") /\ req[p].page = 1
                        /\ Cardinality(urls) <= req[p].per_page)
                        => \A r \in urls :
                              \E i \in 1..Len(Val(resp'.body).items) :
                                  Val(resp'.body).items[i].id = r.id]_vars

\* An update of a row whose expires_at had passed answered 200 and the row,
\* still expired, has the new original_url.
C14_Witness ==
    /\ resp.op = "update" /\ resp.status = 200
    /\ \E r \in ExpiredRows(resp.short_path) :
          /\ resp.url_id = Some(r.id)
          /\ resp.body = Some(r.original_url)
          /\ ~IsNone(r.updated_at)

\* C15: an update that answers 200 leaves access_logs and every row of urls
\* with another short_path as they were, and the row with its short_path keeps
\* its id, short_path, created_at and expires_at and has the new original_url;
\* an update that answers anything else, and every step of an update before
\* its answer, leaves urls and access_logs as they were.
C15_UpdateFrame ==
    [][/\ (resp'.op = "update" /\ resp'.status = 200)
            => /\ logs' = logs
               /\ {r \in urls' : r.short_path # resp'.short_path}
                     = {r \in urls : r.short_path # resp'.short_path}
               /\ \A r \in urls : r.short_path = resp'.short_path
                     => [r EXCEPT !.original_url = Val(resp'.body)] \in
                            {[u EXCEPT !.updated_at = r.updated_at] : u \in urls'}
               /\ Cardinality(urls') = Cardinality(urls)
               /\ \A u \in urls' : u.short_path = resp'.short_path
                     => u.original_url = Val(resp'.body) /\ ~IsNone(u.updated_at)
       /\ (resp'.op = "update" /\ resp'.status # 200)
            => (urls' = urls /\ logs' = logs)
       /\ \A p \in Procs :
            (req[p].op = "update" /\ req'[p] # req[p] /\ resp'.worker # p)
                => (urls' = urls /\ logs' = logs)]_vars

\* An update answered 200 on a store with another row and with logs: its row
\* has the new original_url.
C15_Witness ==
    /\ resp.op = "update" /\ resp.status = 200
    /\ resp.body = Some("https://b.com")
    /\ \E r \in RowsByPath(resp.short_path) :
          r.original_url = "https://b.com" /\ LogsOf(r.id) # {}
    /\ \E r \in urls : r.short_path # resp.short_path

\* C16: a redirect that ends after its locking read with anything but the
\* original_url answers 500 with its transaction rolled back; a redirect that
\* answers anything but 200, and every step of a redirect before its answer,
\* leaves access_logs (and urls) as they were.
C16_FailedRedirectLogsNothing ==
    [][/\ (resp'.op = "redirect" /\ resp'.at \in {"r_insert", "r_commit"}
                /\ resp'.status # 200)
            => (resp'.status = 500 /\ resp'.txn = "rolledback")
       /\ (resp'.op = "redirect" /\ resp'.status # 200)
            => (logs' = logs /\ urls' = urls)
       /\ \A p \in Procs :
            (req[p].op = "redirect" /\ req'[p] # req[p] /\ resp'.worker # p)
                => (logs' = logs /\ urls' = urls)]_vars

\* A redirect failed at its commit, after its INSERT had drawn an id for the
\* log: it answered 500 and no log is stored.
C16_Witness ==
    /\ resp.op = "redirect" /\ resp.at = "r_commit"
    /\ resp.raised = "OperationalError" /\ resp.status = 500
    /\ log_seq = 1 /\ logs = {}

\* Worker p is in a redirect between its locking read and its commit or
\* rollback, on the row with id i.
InRedirectOf(p, i) ==
    /\ req[p].op = "redirect" /\ req[p].pc \in {"r_insert", "r_commit"}
    /\ req[p].url_id = Some(i)

\* C17: no two redirects are at the same time between the locking read and
\* the commit or rollback on the same row, and every redirect that found its
\* row, not expired, and ends without a storage failure has stored exactly one
\* more log of that row (so N of them store N).
C17_RedirectsSerialized ==
    [][/\ \A p, q \in Procs : \A r \in urls :
            (InRedirectOf(p, r.id) /\ InRedirectOf(q, r.id)) => p = q
       /\ (resp'.op = "redirect" /\ resp'.at \in {"r_insert", "r_commit"}
                /\ ~IsPsycopgError(resp'.raised))
            => Cardinality({l \in logs' : l.url_id = Val(resp'.url_id)})
                  = Cardinality({l \in logs : l.url_id = Val(resp'.url_id)}) + 1]_vars

\* C18: a row of access_logs is never changed; rows are added only by the
\* step in which a redirect answers 200, and they are logs of the row it
\* found; rows are removed only by the step in which a delete answers 204, and
\* they are logs of the row it looked up. Every other step (of create, update,
\* stats, list, of a redirect or delete that fails, the clock) leaves
\* access_logs as it was.
C18_LogsFrame ==
    [][/\ \A l \in logs : \A m \in logs' : l.id = m.id => l = m
       /\ logs' \ logs # {}
            => /\ resp'.op = "redirect" /\ resp'.status = 200
               /\ \A l \in logs' \ logs : l.url_id = Val(resp'.url_id)
       /\ logs \ logs' # {}
            => /\ resp'.op = "delete" /\ resp'.status = 204
               /\ \A l \in logs \ logs' : l.url_id = Val(resp'.url_id)]_vars

\* A delete answered 204 and removed the logs of its row while the log of
\* another row stays.
C18_Witness ==
    /\ resp.op = "delete" /\ resp.status = 204
    /\ log_seq = 2 /\ Cardinality(logs) = 1
    /\ \A l \in logs : l.url_id # Val(resp.url_id)

\* C19: in every stats answer the number of entries of access_logs is the
\* smaller of 10 and the total_accesses of the same answer.
C19_StatsConsistent ==
    (resp.op = "stats" /\ resp.status = 200)
        => Len(Val(resp.body).access_logs)
              = Min(RecentLimit, Val(resp.body).total_accesses)

====
